---- MODULE Spec2Model ----
(***************************************************************************)
(* hybrid_ivp: the Route entity (jax_utils/route.py), the trajectory       *)
(* integrators (optimization/zivp.py) and the cone search                  *)
(* (utils/optimize.py, optimize.py).                                       *)
(*                                                                         *)
(* Numbers.  Positions are integers.  Velocities are fixed-point with      *)
(* VScale units per unit of speed, times are fixed-point with TScale units *)
(* per unit of time; a division rounds down to that resolution.  The two   *)
(* float values that are no numbers, NaN and +inf, are the codes NaN and   *)
(* Inf, and every arithmetic operator on times treats them as IEEE does.   *)
(***************************************************************************)
EXTENDS Integers, Sequences, FiniteSets, TLC

\* The Route under test and the call made on it last:
\*   route    the object's fields x, y, t, theta, d
\*   exists   whether a Route object was produced
\*   outcome  "ok", or the exception the last call raised
\*   last     the last call: its name and arguments
\*   pre      the object before the last call
\*   steps    the number of calls made on the object
\* One call of each trajectory integrator on the same arguments:
\*   ivp      the arguments, the strategies that have run and what each returned
\* One run of the cone search:
\*   cone     its arguments, its locals x, y, x_old, y_old and cone_center, where
\*            it stands (pc), the candidate set it yielded last (emitted) and
\*            the statement that ended it (exit)
VARIABLES route, exists, outcome, last, pre, steps, ivp, cone

vars == <<route, exists, outcome, last, pre, steps, ivp, cone>>

routeVars == <<route, exists, outcome, last, pre, steps>>

(***************************************************************************)
(* Bounds of the model.                                                    *)
(***************************************************************************)
MaxIn == 2
MaxLen == 3
MaxOps == 2
MaxCand == 2
MaxHorizon == 2
MaxIter == 2

(***************************************************************************)
(* Fixed-point scales and the float codes.                                 *)
(***************************************************************************)
VScale == 5 * 5
TScale == 2 * 5
NaN == -1000000000
Inf == 1000000000

IsNaN(a) == a = NaN
IsInf(a) == a = Inf
IsNum(a) == a # NaN /\ a # Inf

\* a + b on floats
FAdd(a, b) ==
  IF IsNaN(a) \/ IsNaN(b) THEN NaN
  ELSE IF IsInf(a) \/ IsInf(b) THEN Inf
  ELSE a + b

\* a < b on floats: every comparison with NaN is false
FLt(a, b) ==
  IF IsNaN(a) \/ IsNaN(b) THEN FALSE
  ELSE IF IsInf(a) THEN FALSE
  ELSE IF IsInf(b) THEN TRUE
  ELSE a < b

FLe(a, b) ==
  IF IsNaN(a) \/ IsNaN(b) THEN FALSE
  ELSE IF IsInf(b) THEN TRUE
  ELSE IF IsInf(a) THEN FALSE
  ELSE a <= b

RECURSIVE SqrtIn(_, _, _)
\* the r in lo..hi with r * r <= n < (r + 1) * (r + 1), by bisection
SqrtIn(n, lo, hi) ==
  IF lo = hi THEN lo
  ELSE CHOOSE r \in {IF mid * mid <= n THEN SqrtIn(n, mid, hi)
                                       ELSE SqrtIn(n, lo, mid - 1) :
                     mid \in {(lo + hi + 1) \div 2}} : TRUE

\* floor of the square root of n >= 0
Sqrt(n) == CHOOSE r \in {SqrtIn(m, 0, m) : m \in {n}} : TRUE

(***************************************************************************)
(* Input domains.                                                          *)
(***************************************************************************)
Xs == {0, 3}
Ys == {0, 4}
Pts == {<<0, 0>>, <<3, 0>>, <<3, 4>>}
Ts == {0, TScale}
Thetas == {0, 1}
Vels == {5, 25}
Fields == {"NoCurrent", "ConstantCurrent"}

SeqsUpTo(S, n) == UNION {[1..k -> S] : k \in 0..n}

None == [some |-> FALSE, v |-> <<>>]
Some(s) == [some |-> TRUE, v |-> s]
Opt(S, n) == {None} \cup {Some(s) : s \in SeqsUpTo(S, n)}

(***************************************************************************)
(* Array helpers (numpy / jax.numpy).                                      *)
(***************************************************************************)
\* jnp.arange(0, n, 1), as times
Arange(n) == [i \in 1..n |-> (i - 1) * TScale]

\* jnp.zeros_like(a)
ZerosLike(a) == [i \in 1..Len(a) |-> 0]

\* jnp.full_like(a, v)
FullLike(a, v) == [i \in 1..Len(a) |-> v]

\* a + b with numpy broadcasting of one-dimensional arrays
CanBroadcast(a, b) == Len(a) = Len(b) \/ Len(a) = 1 \/ Len(b) = 1

BroadcastAdd(a, b) ==
  IF Len(a) = Len(b) THEN [i \in 1..Len(a) |-> FAdd(a[i], b[i])]
  ELSE IF Len(a) = 1 THEN [i \in 1..Len(b) |-> FAdd(a[1], b[i])]
  ELSE [i \in 1..Len(a) |-> FAdd(a[i], b[1])]

(***************************************************************************)
(* Geometry (Euclidean, the default of Route.__init__).                    *)
(***************************************************************************)
\* geometry.dist_p0_to_p1
DistP0ToP1(x0, y0, x1, y1) == Sqrt((x1 - x0) * (x1 - x0) + (y1 - y0) * (y1 - y0))

\* geometry.dist_between_coords: one distance per pair of consecutive points
DistBetweenCoords(x, y) ==
  [i \in 1..(Len(x) - 1) |-> DistP0ToP1(x[i], y[i], x[i + 1], y[i + 1])]

(***************************************************************************)
(* Route                                                                   *)
(***************************************************************************)
NoRoute == [x |-> <<>>, y |-> <<>>, t |-> <<>>, theta |-> <<>>, d |-> <<>>]

NoOp == [op |-> "none", x |-> <<>>, y |-> <<>>, t |-> None, theta |-> None,
         vel |-> 0, vf |-> "none", interp |-> FALSE, num_iter |-> 0]

\* Route.__len__
RouteLen(r) == Len(r.x)

\* The assertion of Route.__init__ on the lengths of x, y and t
InitAssert(x, y, t) == Len(x) = Len(y) /\ Len(y) = Len(t)

\* Route.__init__ past its assertion
InitRoute(x, y, t, theta) ==
  [x |-> x, y |-> y,
   t |-> IF t.some THEN t.v ELSE Arange(Len(x)),
   theta |-> IF theta.some THEN theta.v ELSE ZerosLike(x),
   d |-> DistBetweenCoords(x, y)]

\* Route.asdict: the keys of the dictionary and their values
AsDict(r) ==
  [x |-> r.x, y |-> r.y, t |-> r.t, theta |-> r.theta, d |-> r.d,
   geometry |-> "Euclidean"]

\* The keyword parameters Route.__init__ accepts
InitParams == {"x", "y", "t", "theta", "geometry"}

\* Route(**kw): Python binds the keywords before the body runs, and a keyword
\* that names no parameter is a TypeError
BindsInit(kw) == DOMAIN kw \subseteq InitParams

\* Route.append_points with the new points put before the old ones
AppendPointsFront(r, x, y, t, theta) ==
  LET r1 == [r EXCEPT !.x = x \o r.x, !.y = y \o r.y]
      tt == IF t.some THEN t.v ELSE BroadcastAdd(r.t, Arange(Len(x)))
      th == IF theta.some THEN theta.v ELSE FullLike(x, r.theta[Len(r.theta)])
  IN IF ~(t.some \/ CanBroadcast(r.t, Arange(Len(x))))
       THEN [r |-> r1, outcome |-> "BroadcastError"]
     ELSE IF ~(theta.some \/ Len(r.theta) > 0)
       THEN [r |-> [r1 EXCEPT !.t = r.t \o tt], outcome |-> "IndexError"]
     ELSE [r |-> [r1 EXCEPT !.t = r.t \o tt, !.theta = r.theta \o th,
                            !.d = DistBetweenCoords(r1.x, r1.y)],
           outcome |-> "ok"]

\* Route.append_points: the object after the call and how the call ended.
\* The assignments of lines 112-117 happen one by one, so an exception leaves
\* the ones before it in place.
AppendPoints(r, x, y, t, theta) ==
  LET r1 == [r EXCEPT !.x = r.x \o x, !.y = r.y \o y]
      tOk == t.some \/ CanBroadcast(r.t, Arange(Len(x)))
      tt == IF t.some THEN t.v ELSE BroadcastAdd(r.t, Arange(Len(x)))
      r2 == [r1 EXCEPT !.t = r.t \o tt]
      thOk == theta.some \/ Len(r.theta) > 0
      th == IF theta.some THEN theta.v ELSE FullLike(x, r.theta[Len(r.theta)])
      r3 == [r2 EXCEPT !.theta = r.theta \o th,
                       !.d = DistBetweenCoords(r1.x, r1.y)]
  IN IF ~tOk THEN [r |-> r1, outcome |-> "BroadcastError"]
     ELSE IF ~thOk THEN [r |-> r2, outcome |-> "IndexError"]
     ELSE [r |-> r3, outcome |-> "ok"]

\* dist / vel as a time
TimeOf(dist, vel) == (dist * VScale * TScale) \div vel

\* Route.append_point_end
AppendPointEnd(r, x, y, vel) ==
  IF Len(r.x) = 0 \/ Len(r.y) = 0 \/ Len(r.t) = 0
    THEN [r |-> r, outcome |-> "IndexError"]
    ELSE LET dist == DistP0ToP1(r.x[Len(r.x)], r.y[Len(r.y)], x, y)
             t == FAdd(TimeOf(dist, vel), r.t[Len(r.t)])
         IN AppendPoints(r, <<x>>, <<y>>, Some(<<t>>), None)

(***************************************************************************)
(* Route.recompute_times                                                   *)
(***************************************************************************)
\* Vectorfield.get_current of NoCurrent and of ConstantCurrent (0.2, -0.2)
GetCurrent(vf, x, y) ==
  IF vf = "NoCurrent" THEN <<0, 0>> ELSE <<VScale \div 5, -(VScale \div 5)>>

\* The direction over ground of a segment, as <<dx, dy, length>>; two equal
\* points give the angle arctan2(0, 0) = 0
SegDir(x0, y0, x1, y1) ==
  LET dd == DistP0ToP1(x0, y0, x1, y1) IN
  IF dd = 0 THEN <<1, 0, 1>> ELSE <<x1 - x0, y1 - y0, dd>>

\* Lines 168-178: the velocity over ground of a vessel of speed vel in the
\* current cur along direction dir; NaN when the current's perpendicular
\* component exceeds vel
VelGround(vel, cur, dir) ==
  LET para == (cur[1] * dir[1] + cur[2] * dir[2]) \div dir[3]
      perp == (cur[2] * dir[1] - cur[1] * dir[2]) \div dir[3]
      rad == vel * vel - perp * perp
  IN IF rad < 0 THEN NaN ELSE Sqrt(rad) + para

\* Lines 173-176: the vessel must compensate a perpendicular component of
\* the current that is larger than its own speed
PerpExceeds(vel, cur, dir) ==
  LET perp == (cur[2] * dir[1] - cur[1] * dir[2]) \div dir[3]
  IN perp * perp > vel * vel

\* np.divide(d, v_g) of one element, as a time
DivTime(d, vg) ==
  IF IsNaN(vg) THEN NaN
  ELSE IF vg = 0 THEN (IF d = 0 THEN NaN ELSE Inf)
  ELSE (d * VScale * TScale) \div vg

\* np.nanmax: the largest element that is not NaN, NaN when there is none
NanMax(t) ==
  LET S == {t[i] : i \in 1..Len(t)} \ {NaN} IN
  IF S = {} THEN NaN
  ELSE IF Inf \in S THEN Inf
  ELSE CHOOSE m \in S : \A v \in S : v <= m

\* Lines 182-198: NaN entries, then the entries that were negative, become
\* the maximum
ClampTimes(t) ==
  LET maskNeg == [i \in 1..Len(t) |-> FLt(t[i], 0)]
      t1 == CHOOSE u \in {[i \in 1..Len(t) |-> IF IsNaN(t[i]) THEN m ELSE t[i]] :
                            m \in {NanMax(t)}} : TRUE
  IN CHOOSE u \in {[i \in 1..Len(t) |-> IF maskNeg[i] THEN m ELSE t1[i]] :
                     m \in {NanMax(t1)}} : TRUE

RECURSIVE CumTimesFrom(_, _, _)
\* The running sums of t from its element i on, after the sum acc
CumTimesFrom(t, i, acc) ==
  IF i > Len(t) THEN <<acc>>
  ELSE <<acc>> \o CumTimesFrom(t, i + 1, FAdd(acc, t[i]))

\* np.concatenate([[0], np.cumsum(t)])
CumTimes(t) == CumTimesFrom(t, 1, 0)

\* The number of samples the per-segment solve runs on
SolveLen(n, interp) == IF interp THEN 10 * n ELSE n

\* The velocity over ground on each segment of the (resampled) route.  The
\* resampled points lie on the polyline, and the solve is reached with
\* interp only for a route of two points, whose one segment holds them all.
SegVels(r, vel, vf, interp) ==
  [i \in 1..(SolveLen(Len(r.x), interp) - 1) |->
     LET s == IF interp THEN 1 ELSE i
         dir == SegDir(r.x[s], r.y[s], r.x[s + 1], r.y[s + 1])
     IN VelGround(vel, GetCurrent(vf, r.x[s], r.y[s]), dir)]

\* Line 180: np.divide(self.d, v_g), a d of one element broadcast
SegTimes(d, vg) ==
  [i \in 1..Len(vg) |-> DivTime(IF Len(d) = 1 THEN d[1] ELSE d[i], vg[i])]

\* np.interp(j, i, t): the cumulative times at the original samples
BackInterp(cum, n) ==
  [k \in 1..n |-> cum[((k - 1) * (10 * n - 1)) \div (n - 1) + 1]]

\* Lines 200-206: the new time sequence from the per-segment times
NewTimes(t, n, interp) ==
  IF interp THEN BackInterp(CumTimes(ClampTimes(t)), n)
  ELSE CumTimes(ClampTimes(t))

\* Route.recompute_times: the object after the call and how the call ended
RecomputeTimes(r, vel, vf, interp) ==
  LET n == Len(r.x)
      m == SolveLen(n, interp) - 1
  IN IF n = 0 \/ (interp /\ n = 1) \/ ~(Len(r.d) = m \/ Len(r.d) = 1 \/ m = 1)
       THEN [r |-> r, outcome |-> "ValueError"]
       ELSE [r |-> CHOOSE q \in
                     {[r EXCEPT !.t = NewTimes(t, n, interp)] :
                        t \in {SegTimes(r.d, vg) : vg \in {SegVels(r, vel, vf, interp)}}} :
                     TRUE,
             outcome |-> "ok"]

(***************************************************************************)
(* The Route under a sequence of calls.  A run starts from a constructed   *)
(* Route; an exception that a call raises ends the run.                    *)
(***************************************************************************)
\* The sequences of points of length k, as <<x, y>>
PointSeqs(k) ==
  {<<[i \in 1..k |-> p[i][1]], [i \in 1..k |-> p[i][2]]>> : p \in [1..k -> Pts]}

\* The optional t or theta of a call on k points: omitted, one value per point,
\* or no value
OptFor(k, v) == {None, Some([i \in 1..k |-> v]), Some(<<>>)}

\* No integrator call
NoIvp == [vf |-> "none", x |-> <<>>, y |-> <<>>, thetas |-> <<>>,
          time_start |-> 0, time_end |-> 0, time_step |-> 1, vel |-> 0,
          done |-> {}, ode |-> <<>>, disc |-> <<>>, rk |-> <<>>]

\* No cone search
NoCone == [vf |-> "none", strategy |-> "none", x_end |-> 0, y_end |-> 0,
           time_max |-> 0, time_step |-> 1, angle_amplitude |-> 0,
           num_angles |-> 0, vel |-> 0, dist_min |-> 0,
           x |-> 0, y |-> 0, x_old |-> 0, y_old |-> 0, cone_center |-> 0,
           pc |-> "none", emitted |-> <<>>, exit |-> "none",
           version |-> "none", stop |-> "none"]

Init ==
  /\ ivp = NoIvp
  /\ cone = NoCone
  /\ \E k \in 1..MaxIn : \E p \in PointSeqs(k) :
       \E t \in {None, Some([i \in 1..k |-> 0])}, theta \in OptFor(k, 1) :
         route = InitRoute(p[1], p[2], t, theta)
  /\ exists = TRUE
  /\ outcome = "ok"
  /\ last = NoOp
  /\ pre = NoRoute
  /\ steps = 0

\* A call can be made: the object exists and no call has raised
CanCall == exists /\ outcome = "ok" /\ steps < MaxOps

\* What every call on the object does to the record of calls
Called(op) ==
  /\ steps' = steps + 1
  /\ last' = op
  /\ pre' = route
  /\ UNCHANGED <<exists, ivp, cone>>

\* route.append_points(x, y, t, theta), x and y holding the same number of points
DoAppendPoints(x, y, t, theta) ==
  /\ CanCall
  /\ Len(route.x) + Len(x) <= MaxLen
  /\ Called([NoOp EXCEPT !.op = "append_points", !.x = x, !.y = y, !.t = t,
                         !.theta = theta])
  /\ \E res \in {AppendPoints(route, x, y, t, theta)} :
       route' = res.r /\ outcome' = res.outcome

\* route.append_point_end(x, y, vel)
DoAppendPointEnd(x, y, vel) ==
  /\ CanCall
  /\ Len(route.x) + 1 <= MaxLen
  /\ Called([NoOp EXCEPT !.op = "append_point_end", !.x = <<x>>, !.y = <<y>>,
                         !.vel = vel])
  /\ \E res \in {AppendPointEnd(route, x, y, vel)} :
       route' = res.r /\ outcome' = res.outcome

\* route.recompute_times(vel, vf, interp)
DoRecomputeTimes(vel, vf, interp) ==
  /\ CanCall
  /\ Called([NoOp EXCEPT !.op = "recompute_times", !.vel = vel, !.vf = vf,
                         !.interp = interp])
  /\ \E res \in {RecomputeTimes(route, vel, vf, interp)} :
       route' = res.r /\ outcome' = res.outcome

\* Route(**kw): the object and how the call ended
RouteFromDict(kw) ==
  IF ~BindsInit(kw) THEN [r |-> NoRoute, outcome |-> "TypeError"]
  ELSE IF ~InitAssert(kw.x, kw.y, kw.t) THEN [r |-> NoRoute, outcome |-> "AssertionError"]
  ELSE [r |-> InitRoute(kw.x, kw.y, Some(kw.t), Some(kw.theta)), outcome |-> "ok"]

\* Route(**route.asdict()), as run/read_json.py builds a route from a stored
\* one; the rebuilt object takes the place of the original when it is built
RoundTrip ==
  /\ CanCall
  /\ Called([NoOp EXCEPT !.op = "roundtrip"])
  /\ \E res \in {RouteFromDict(AsDict(route))} :
       /\ route' = IF res.outcome = "ok" THEN res.r ELSE route
       /\ outcome' = res.outcome

Next ==
  \/ \E k \in 1..(MaxLen - Len(route.x)) : \E p \in PointSeqs(k) :
       \E t \in OptFor(k, TScale), theta \in OptFor(k, 1) :
         DoAppendPoints(p[1], p[2], t, theta)
  \/ \E p \in Pts, vel \in Vels : DoAppendPointEnd(p[1], p[2], vel)
  \/ \E vel \in Vels, vf \in Fields, interp \in BOOLEAN :
       DoRecomputeTimes(vel, vf, interp)
  \/ RoundTrip

Spec == Init /\ [][Next]_vars

(***************************************************************************)
(* The construction of a Route from arbitrary sequences.                   *)
(***************************************************************************)
InitNew ==
  /\ ivp = NoIvp
  /\ cone = NoCone
  /\ route = NoRoute
  /\ exists = FALSE
  /\ outcome = "ok"
  /\ last = NoOp
  /\ pre = NoRoute
  /\ steps = 0

\* Route(x, y, t, theta)
Construct(x, y, t, theta) ==
  LET tt == IF t.some THEN t.v ELSE Arange(Len(x)) IN
  /\ last.op = "none"
  /\ last' = [NoOp EXCEPT !.op = "construct", !.x = x, !.y = y, !.t = t, !.theta = theta]
  /\ IF InitAssert(x, y, tt)
       THEN /\ route' = InitRoute(x, y, t, theta)
            /\ exists' = TRUE
            /\ outcome' = "ok"
       ELSE /\ route' = NoRoute
            /\ exists' = FALSE
            /\ outcome' = "AssertionError"
  /\ UNCHANGED <<pre, steps, ivp, cone>>

NextNew ==
  \/ /\ last.op = "none"
     /\ \E x \in SeqsUpTo(Xs, MaxIn), y \in SeqsUpTo(Ys, MaxIn),
           t \in Opt(Ts, MaxIn), theta \in Opt(Thetas, MaxIn) : Construct(x, y, t, theta)
  \/ RoundTrip

SpecNew == InitNew /\ [][NextNew]_vars

(***************************************************************************)
(* The trajectory integrators (optimization/zivp.py).  A heading is a      *)
(* whole number of quarter turns, so that its cosine and sine are -1, 0    *)
(* or 1; positions are fixed-point with VScale units per unit of length.   *)
(***************************************************************************)
\* jnp.cos and jnp.sin of q quarter turns
Cos4(q) == CASE q % 4 = 0 -> 1 [] q % 4 = 2 -> -1 [] OTHER -> 0
Sin4(q) == CASE q % 4 = 1 -> 1 [] q % 4 = 3 -> -1 [] OTHER -> 0

\* len(jnp.arange(a, b, s)) for s > 0
ArangeLen(a, b, s) == IF b <= a THEN 0 ELSE (b - a + s - 1) \div s

\* jnp.arange(time_start, time_end + time_step, time_step), in units of time
TimeGrid(a) ==
  [i \in 1..ArangeLen(a.time_start, a.time_end + a.time_step, a.time_step) |->
     a.time_start + (i - 1) * a.time_step]

\* The grid as the time sequence of a Route
GridTimes(g) == [i \in 1..Len(g) |-> g[i] * TScale]

\* The spatial derivatives <<du/dx, du/dy, dv/dx, dv/dy>> of NoCurrent and of
\* ConstantCurrent
Gradient(vf, x, y) == <<0, 0, 0, 0>>

\* The right-hand side of Zermelo's equations at q = <<x, y, theta>>
OdeZermelo(vf, q, vel) ==
  CHOOSE k \in {<<vel * a.c + a.cur[1],
                  vel * a.sn + a.cur[2],
                  a.g[3] * a.sn * a.sn + a.sn * a.c * (a.g[1] - a.g[4])
                    - a.g[2] * a.c * a.c>> :
                a \in {[cur |-> GetCurrent(vf, p[1], p[2]),
                        g |-> Gradient(vf, p[1], p[2]),
                        c |-> Cos4(p[3]), sn |-> Sin4(p[3])] : p \in {q}}} : TRUE

\* odeint(vectorfield.ode_zermelo, p, t, vel): the solution through p at the
\* times t.  For the fields above the right-hand side is constant along a
\* trajectory, and the solution is the straight line through p.
OdeInt(vf, p, t, vel) ==
  LET k == OdeZermelo(vf, p, vel) IN
  [i \in 1..Len(t) |-> <<p[1] + k[1] * (t[i] - t[1]),
                         p[2] + k[2] * (t[i] - t[1]),
                         p[3] + k[3] * (t[i] - t[1])>>]

\* Route(x, y, t, theta) as an integrator builds it from its samples q
RouteOf(q, t, theta) ==
  CHOOSE r \in {InitRoute(xy[1], xy[2], t, theta) :
                  xy \in {<<[i \in 1..Len(q) |-> q[i][1]],
                            [i \in 1..Len(q) |-> q[i][2]]>>}} : TRUE

\* solve_ode_zermelo
SolveOdeZermelo(a) ==
  LET t == TimeGrid(a) IN
  [idx \in 1..Len(a.thetas) |->
     LET sol == OdeInt(a.vf, <<a.x[idx], a.y[idx], a.thetas[idx]>>, t, a.vel)
     IN RouteOf(sol, Some(GridTimes(t)), Some([i \in 1..Len(sol) |-> sol[i][3]]))]

RECURSIVE DiscretizedPath(_, _, _, _, _, _, _)
\* Lines 120-128: the n positions the loop stores, each after its step
DiscretizedPath(vf, x, y, theta, vel, dt, n) ==
  IF n = 0 THEN <<>>
  ELSE LET cur == GetCurrent(vf, x, y)
           x1 == x + (vel * Cos4(theta) + cur[1]) * dt
           y1 == y + (vel * Sin4(theta) + cur[2]) * dt
       IN <<(<<x1, y1, theta>>)>> \o DiscretizedPath(vf, x1, y1, theta, vel, dt, n - 1)

\* solve_discretized_zermelo
SolveDiscretizedZermelo(a) ==
  LET t == TimeGrid(a) IN
  [idx \in 1..Len(a.thetas) |->
     RouteOf(DiscretizedPath(a.vf, a.x[idx], a.y[idx], a.thetas[idx], a.vel,
                             a.time_step, Len(t)),
             None, Some([i \in 1..Len(t) |-> a.thetas[idx]]))]

\* q + k * h / den, component by component (a binds the values of q and k)
Axpy(q, k, h, den) ==
  CHOOSE r \in {<<a[1][1] + (a[2][1] * h) \div den,
                  a[1][2] + (a[2][2] * h) \div den,
                  a[1][3] + (a[2][3] * h) \div den>> : a \in {<<q, k>>}} : TRUE

\* Lines 184-199: one Runge-Kutta step from q0
RkStep(vf, q0, vel, dt) ==
  LET k1 == OdeZermelo(vf, q0, vel)
      k2 == OdeZermelo(vf, Axpy(q0, k1, dt, 2), vel)
      k3 == OdeZermelo(vf, Axpy(q0, k2, dt, 2), vel)
      k4 == OdeZermelo(vf, Axpy(q0, k3, dt, 1), vel)
  IN Axpy(q0, <<k1[1] + 2 * k2[1] + 2 * k3[1] + k4[1],
                k1[2] + 2 * k2[2] + 2 * k3[2] + k4[2],
                k1[3] + 2 * k2[3] + 2 * k3[3] + k4[3]>>, dt, 6)

RECURSIVE RkPath(_, _, _, _, _)
\* Lines 181-200: arr_q, n samples of which the first is q0
RkPath(vf, q0, vel, dt, n) ==
  IF n = 0 THEN <<>>
  ELSE CHOOSE p \in {IF n = 1 THEN <<q>>
                     ELSE <<q>> \o RkPath(vf, RkStep(vf, q, vel, dt), vel, dt, n - 1) :
                     q \in {q0}} : TRUE

\* solve_rk_zermelo storing one sample per step taken and not the start
SolveRkZermeloSteps(a) ==
  LET t == TimeGrid(a) IN
  [idx \in 1..Len(a.x) |->
     LET q == Tail(RkPath(a.vf, <<a.x[idx], a.y[idx], a.thetas[idx]>>, a.vel,
                          a.time_step, Len(t)))
     IN RouteOf(q, Some(GridTimes(t)), Some([i \in 1..Len(q) |-> q[i][3]]))]

\* solve_rk_zermelo
SolveRkZermelo(a) ==
  LET t == TimeGrid(a) IN
  [idx \in 1..Len(a.x) |->
     LET q == RkPath(a.vf, <<a.x[idx], a.y[idx], a.thetas[idx]>>, a.vel,
                     a.time_step, Len(t))
     IN RouteOf(q, Some(GridTimes(t)), Some([i \in 1..Len(q) |-> q[i][3]]))]

\* The start positions and the headings of the candidates
Starts == {<<0, 0>>, <<VScale, 2 * VScale>>}
Headings == 0..3
IvpVels == {VScale, 2 * VScale}

InitIvp ==
  /\ cone = NoCone
  /\ route = NoRoute /\ exists = FALSE /\ outcome = "ok"
  /\ last = NoOp /\ pre = NoRoute /\ steps = 0
  /\ \E vf \in Fields, p \in Starts, n \in 1..MaxCand, vel \in IvpVels,
        t0 \in 0..1, h \in 1..MaxHorizon, dt \in 1..2 :
       \E th \in [1..n -> Headings] :
         ivp = [NoIvp EXCEPT !.vf = vf, !.x = [i \in 1..n |-> p[1]],
                             !.y = [i \in 1..n |-> p[2]], !.thetas = th,
                             !.time_start = t0, !.time_end = t0 + h,
                             !.time_step = dt, !.vel = vel]

\* list_routes = solve_ode_zermelo(vectorfield, x, y, thetas, ...)
RunOde ==
  /\ "ode" \notin ivp.done
  /\ ivp' = [ivp EXCEPT !.done = @ \cup {"ode"}, !.ode = SolveOdeZermelo(ivp)]
  /\ UNCHANGED <<routeVars, cone>>

\* list_routes = solve_discretized_zermelo(vectorfield, x, y, thetas, ...)
RunDiscretized ==
  /\ "disc" \notin ivp.done
  /\ ivp' = [ivp EXCEPT !.done = @ \cup {"disc"}, !.disc = SolveDiscretizedZermelo(ivp)]
  /\ UNCHANGED <<routeVars, cone>>

\* list_routes = solve_rk_zermelo(vectorfield, x, y, thetas, ...)
RunRk ==
  /\ "rk" \notin ivp.done
  /\ ivp' = [ivp EXCEPT !.done = @ \cup {"rk"}, !.rk = SolveRkZermelo(ivp)]
  /\ UNCHANGED <<routeVars, cone>>

NextIvp == RunOde \/ RunDiscretized \/ RunRk

SpecIvp == InitIvp /\ [][NextIvp]_vars

\* What the strategies that have run returned
Returned == {ivp.ode : s \in ivp.done \cap {"ode"}}
            \cup {ivp.disc : s \in ivp.done \cap {"disc"}}
            \cup {ivp.rk : s \in ivp.done \cap {"rk"}}

(***************************************************************************)
(* The cone search (utils/optimize.py).  The runs modelled keep every      *)
(* position on a coordinate axis through the destination: the field is     *)
(* zero and the fan of headings is a single heading or the centre with     *)
(* its two perpendiculars.                                                 *)
(***************************************************************************)
\* np.arctan2(dy, dx) in quarter turns, of a vector along an axis
Arctan4(dy, dx) ==
  CASE dy = 0 /\ dx >= 0 -> 0
    [] dy = 0 /\ dx < 0 -> 2
    [] dx = 0 /\ dy > 0 -> 1
    [] dx = 0 /\ dy < 0 -> -1

\* np.linspace(c - a / 2, c + a / 2, num)
ConeThetas(c, a, num) ==
  [i \in 1..num |-> IF num = 1 THEN c - a \div 2
                    ELSE c - a \div 2 + ((i - 1) * a) \div (num - 1)]

\* dist_to_dest squared: the square root is increasing, and the search only
\* compares distances
DistToDestSq(p0, p1) ==
  (p0[1] - p1[1]) * (p0[1] - p1[1]) + (p0[2] - p1[2]) * (p0[2] - p1[2])

\* The last point of a route
EndPoint(r) == <<r.x[Len(r.x)], r.y[Len(r.y)]>>

\* The last index of the least distance
MinDistToDestLast(list_routes, pt_goal) ==
  CHOOSE k \in 1..Len(list_routes) :
    /\ \A i \in 1..Len(list_routes) :
         DistToDestSq(EndPoint(list_routes[k]), pt_goal)
           <= DistToDestSq(EndPoint(list_routes[i]), pt_goal)
    /\ \A i \in (k + 1)..Len(list_routes) :
         DistToDestSq(EndPoint(list_routes[k]), pt_goal)
           < DistToDestSq(EndPoint(list_routes[i]), pt_goal)

RECURSIVE MinDistFrom(_, _, _, _, _)
\* min_dist_to_dest from index idx on, the best so far being best at min_sq
MinDistFrom(list_routes, pt_goal, idx, best, min_sq) ==
  IF idx > Len(list_routes) THEN best
  ELSE LET dsq == DistToDestSq(EndPoint(list_routes[idx]), pt_goal) IN
       IF min_sq < 0 \/ dsq < min_sq
         THEN MinDistFrom(list_routes, pt_goal, idx + 1, idx, dsq)
         ELSE MinDistFrom(list_routes, pt_goal, idx + 1, best, min_sq)

\* min_dist_to_dest: the first index of the least distance (min_sq < 0 stands
\* for the initial np.inf)
MinDistToDest(list_routes, pt_goal) == MinDistFrom(list_routes, pt_goal, 1, 0, -1)

\* solve_wave: the fan of headings about cone_center, integrated from (x, y)
\* over [0, time_max] by the configured strategy
SolveWave(c) ==
  LET a == [NoIvp EXCEPT !.vf = c.vf,
                         !.x = [i \in 1..c.num_angles |-> c.x],
                         !.y = [i \in 1..c.num_angles |-> c.y],
                         !.thetas = ConeThetas(c.cone_center, c.angle_amplitude,
                                               c.num_angles),
                         !.time_start = 0, !.time_end = c.time_max,
                         !.time_step = c.time_step, !.vel = c.vel]
  IN CASE c.strategy = "ode" -> SolveOdeZermelo(a)
       [] c.strategy = "disc" -> SolveDiscretizedZermelo(a)
       [] c.strategy = "rk" -> SolveRkZermelo(a)

\* list_routes.insert(0, list_routes.pop(idx_best))
MoveToFront(list_routes, idx) ==
  <<list_routes[idx]>> \o SubSeq(list_routes, 1, idx - 1)
                       \o SubSeq(list_routes, idx + 1, Len(list_routes))

\* The while condition of optimize_route
FarFromDest(c) ==
  DistToDestSq(<<c.x, c.y>>, <<c.x_end, c.y_end>>) > c.dist_min * c.dist_min

Dests == {<<10 * VScale, 0>>, <<0, 10 * VScale>>, <<VScale, 0>>}
Fans == {<<0, 1>>, <<0, 3>>, <<2, 3>>}
ConeVels == {0, VScale, 3 * VScale, 4 * VScale}
Strategies == {"ode", "disc", "rk"}

\* utils/optimize.py: optimize_route(vectorfield, 0, 0, x_end, y_end, ...) up
\* to its loop
StartCone ==
  \E d \in Dests, fan \in Fans, vel \in ConeVels, st \in Strategies,
     tm \in 1..MaxHorizon, dt \in 1..2, dm \in 1..2 :
    cone = [NoCone EXCEPT !.version = "utils",
                          !.vf = "NoCurrent", !.strategy = st,
                          !.x_end = d[1], !.y_end = d[2],
                          !.time_max = tm, !.time_step = dt,
                          !.angle_amplitude = fan[1], !.num_angles = fan[2],
                          !.vel = vel, !.dist_min = dm * VScale,
                          !.cone_center = Arctan4(d[2], d[1]),
                          !.pc = "while"]

\* hybrid_routing/optimize.py: the older optimize_route up to its loop.  It
\* has no dist_min, time_max or time_step: it stops within 3 of the
\* destination and integrates over np.linspace(0, 2, step_time).
StartConeOld ==
  \E d \in Dests, fan \in Fans, vel \in ConeVels :
    cone = [NoCone EXCEPT !.version = "old",
                          !.vf = "NoCurrent", !.strategy = "odeint",
                          !.x_end = d[1], !.y_end = d[2],
                          !.time_max = 2,
                          !.angle_amplitude = fan[1], !.num_angles = fan[2],
                          !.vel = vel, !.dist_min = 3 * VScale,
                          !.cone_center = Arctan4(d[2], d[1]),
                          !.pc = "while"]

InitCone ==
  /\ ivp = NoIvp
  /\ route = NoRoute /\ exists = FALSE /\ outcome = "ok"
  /\ last = NoOp /\ pre = NoRoute /\ steps = 0
  /\ (StartCone \/ StartConeOld)

\* Lines 43-54 of the older optimize_route: sol[-1] of each heading of the
\* fan, a point <<x, y, theta>>
CandidatesOld(c) ==
  LET thetas == ConeThetas(c.cone_center, c.angle_amplitude, c.num_angles) IN
  [i \in 1..c.num_angles |->
     LET sol == OdeInt(c.vf, <<c.x, c.y, thetas[i]>>, <<0, c.time_max>>, c.vel)
     IN sol[Len(sol)]]

\* min_dist_to_dest(candidates, goal) of the older optimize_route.  Each
\* candidate is a point, so route[-1] is its heading, a scalar, and
\* dist_to_dest raises on p0[0]; with no candidate the index returned is
\* unbound.
MinDistOld(candidates) ==
  IF Len(candidates) = 0 THEN "UnboundLocalError" ELSE "IndexError"

\* One pass of the loop body of the older optimize_route: it raises at the
\* selection (line 60)
ConeIterateOld ==
  /\ cone.pc = "while"
  /\ cone.version = "old"
  /\ FarFromDest(cone)
  /\ cone' = [cone EXCEPT !.x_old = cone.x, !.y_old = cone.y,
                          !.pc = "raised",
                          !.exit = MinDistOld(CandidatesOld(cone))]
  /\ UNCHANGED <<routeVars, ivp>>

\* One pass of the loop body, up to its yield
ConeIterate ==
  /\ cone.pc = "while"
  /\ cone.version = "utils"
  /\ FarFromDest(cone)
  /\ \E list_routes \in {SolveWave(cone)} :
       \E idx_best \in {MinDistToDest(list_routes, <<cone.x_end, cone.y_end>>)} :
         \E p \in {EndPoint(list_routes[idx_best])} :
           cone' = [cone EXCEPT !.x_old = cone.x, !.y_old = cone.y,
                                !.x = p[1], !.y = p[2],
                                !.cone_center = Arctan4(cone.y_end - p[2],
                                                        cone.x_end - p[1]),
                                !.emitted = MoveToFront(list_routes, idx_best),
                                !.pc = "yield"]
  /\ UNCHANGED <<routeVars, ivp>>

\* A resumption that goes back to the loop test whatever the position is
ConeResumeOn ==
  /\ cone.pc = "yield"
  /\ cone' = [cone EXCEPT !.pc = "while"]
  /\ UNCHANGED <<routeVars, ivp>>

\* The caller asks for the next candidate set: the check after the yield
ConeResume ==
  /\ cone.pc = "yield"
  /\ cone' = IF cone.x = cone.x_old /\ cone.y = cone.y_old
               THEN [cone EXCEPT !.pc = "done", !.exit = "break", !.stop = "None"]
               ELSE [cone EXCEPT !.pc = "while"]
  /\ UNCHANGED <<routeVars, ivp>>

\* The while condition fails: the generator ends
ConeExit ==
  /\ cone.pc = "while"
  /\ ~FarFromDest(cone)
  /\ cone' = [cone EXCEPT !.pc = "done", !.exit = "while", !.stop = "None"]
  /\ UNCHANGED <<routeVars, ivp>>

NextCone == ConeIterate \/ ConeIterateOld \/ ConeResume \/ ConeExit

SpecCone == InitCone /\ [][NextCone]_vars

\* The caller consumes the generator to its end
FairCone == SpecCone /\ WF_vars(NextCone)

(***************************************************************************)
(* The relaxation of a Route (DNJ), as run/read_json.py and                *)
(* run/paper_methods.py call it: dnj.optimize_route(route, num_iter)       *)
(* moves the waypoints of the Route it is given, in place.  One pass moves *)
(* every interior waypoint at once, toward the mean of its two neighbours  *)
(* and along the local current.                                            *)
(***************************************************************************)
\* The waypoint i of r after one pass, in the coordinate c (c of its
\* neighbours and cur the current's component)
Relaxed(c, i, cur) == c[i] + (c[i - 1] + c[i + 1] - 2 * c[i]) \div 4 + cur \div 5

\* One pass that also moves the first and the last waypoint, each toward its
\* one neighbour
DnjPassAll(r, vf) ==
  LET n == Len(r.x)
      Nb(c, i) == IF i < 1 THEN c[1] ELSE IF i > n THEN c[n] ELSE c[i]
  IN [r EXCEPT
        !.x = [i \in 1..n |-> r.x[i] + (Nb(r.x, i - 1) + Nb(r.x, i + 1) - 2 * r.x[i]) \div 2
                                + GetCurrent(vf, r.x[i], r.y[i])[1] \div 5],
        !.y = [i \in 1..n |-> r.y[i] + (Nb(r.y, i - 1) + Nb(r.y, i + 1) - 2 * r.y[i]) \div 2
                                + GetCurrent(vf, r.x[i], r.y[i])[2] \div 5]]

\* One pass: the interior waypoints move, all from the positions before the
\* pass; the first and the last waypoint stay
DnjPass(r, vf) ==
  [r EXCEPT
     !.x = [i \in 1..Len(r.x) |->
              IF i = 1 \/ i = Len(r.x) THEN r.x[i]
              ELSE Relaxed(r.x, i, GetCurrent(vf, r.x[i], r.y[i])[1])],
     !.y = [i \in 1..Len(r.y) |->
              IF i = 1 \/ i = Len(r.y) THEN r.y[i]
              ELSE Relaxed(r.y, i, GetCurrent(vf, r.x[i], r.y[i])[2])]]

RECURSIVE DnjOptimizeRoute(_, _, _)
\* dnj.optimize_route(route, num_iter): num_iter passes
DnjOptimizeRoute(r, vf, num_iter) ==
  IF num_iter = 0 THEN r
  ELSE DnjOptimizeRoute(DnjPass(r, vf), vf, num_iter - 1)

\* A Route of two to MaxLen + 1 waypoints, before any relaxation (pre keeps it)
InitDnj ==
  /\ ivp = NoIvp
  /\ cone = NoCone
  /\ \E k \in 2..(MaxLen + 1) : \E p \in PointSeqs(k) :
       route = InitRoute(p[1], p[2], None, None)
  /\ pre = route
  /\ exists = TRUE /\ outcome = "ok" /\ last = NoOp /\ steps = 0

\* One invocation of the relaxation on the Route, with a budget of num_iter
RunDnj(vf, num_iter) ==
  /\ steps < MaxOps
  /\ route' = DnjOptimizeRoute(route, vf, num_iter)
  /\ last' = [NoOp EXCEPT !.op = "dnj.optimize_route", !.vf = vf,
                          !.num_iter = num_iter]
  /\ steps' = steps + 1
  /\ UNCHANGED <<pre, exists, outcome, ivp, cone>>

NextDnj == \E vf \in Fields, num_iter \in 0..MaxIter : RunDnj(vf, num_iter)

SpecDnj == InitDnj /\ [][NextDnj]_vars

(***************************************************************************)
(* Claims about the construction of a Route (SpecNew)                      *)
(***************************************************************************)
\* The sequences a call supplied
Supplied(op) ==
  {op.x, op.y} \cup (IF op.t.some THEN {op.t.v} ELSE {})
               \cup (IF op.theta.some THEN {op.theta.v} ELSE {})

\* C1: a Route constructed from position sequences of length N has
\* len(route) = N and x, y, t and theta of length N each.
C1_ConstructedLengths ==
  (last.op = "construct" /\ exists) =>
    /\ RouteLen(route) = Len(last.x)
    /\ Len(route.x) = Len(last.x)
    /\ Len(route.y) = Len(last.x)
    /\ Len(route.t) = Len(last.x)
    /\ Len(route.theta) = Len(last.x)

\* C2: a construction whose supplied sequences do not all have the same
\* length fails with the shape error and produces no Route.
C2_MismatchFails ==
  (last.op = "construct" /\ \E a, b \in Supplied(last) : Len(a) # Len(b)) =>
    (outcome = "AssertionError" /\ ~exists)

(***************************************************************************)
(* Claims about the calls on a Route (Spec)                                *)
(***************************************************************************)
\* The four sequences have one length, at least 1
ValidRoute(r) ==
  /\ Len(r.x) >= 1
  /\ Len(r.y) = Len(r.x)
  /\ Len(r.t) = Len(r.x)
  /\ Len(r.theta) = Len(r.x)

NonDecreasing(t) == \A i \in 1..(Len(t) - 1) : FLe(t[i], t[i + 1])

\* The call supplied, for each sequence it supplied, one value per point
OneValuePerPoint(op) == \A a \in Supplied(op) : Len(a) = Len(op.x)

\* C3: append (with or without t and theta), append_point_end and
\* recompute_times take a Route whose four sequences have one length >= 1 to
\* such a Route (stated of the calls that return, and that supplied one value
\* per point in each sequence they supplied).
C3_LengthsStayEqual ==
  (/\ last.op \in {"append_points", "append_point_end", "recompute_times"}
   /\ outcome = "ok"
   /\ OneValuePerPoint(last)
   /\ ValidRoute(pre)) => ValidRoute(route)

\* C4: appending a single point (x, y) to a Route of length N gives a Route
\* of length N + 1 whose last position is (x, y) and whose first N positions
\* are unchanged.
C4_AppendSinglePoint ==
  (last.op = "append_points" /\ Len(last.x) = 1) =>
    /\ RouteLen(route) = RouteLen(pre) + 1
    /\ route.x[RouteLen(route)] = last.x[1]
    /\ route.y[RouteLen(route)] = last.y[1]
    /\ Len(route.y) = Len(pre.y) + 1
    /\ SubSeq(route.x, 1, RouteLen(pre)) = pre.x
    /\ SubSeq(route.y, 1, RouteLen(pre)) = pre.y

\* C4 witness: a point was appended to a Route of two points, and it is not
\* the point the Route ended with.
C4_Witness ==
  /\ last.op = "append_points" /\ Len(last.x) = 1 /\ outcome = "ok"
  /\ RouteLen(pre) = 2 /\ RouteLen(route) = 3
  /\ <<route.x[3], route.y[3]>> # <<pre.x[2], pre.y[2]>>
  /\ <<pre.x[1], pre.y[1]>> # <<pre.x[2], pre.y[2]>>

\* C5: a Route built from the dictionary of r.asdict() is built without an
\* error and has the x, y, t and theta of r.
C5_RoundTrip ==
  (last.op = "roundtrip") =>
    /\ outcome = "ok"
    /\ route.x = pre.x /\ route.y = pre.y
    /\ route.t = pre.t /\ route.theta = pre.theta

\* C6: append with t omitted, append_point_end with a velocity > 0 and
\* recompute_times take a Route with non-decreasing times to a Route with
\* non-decreasing times (stated of the calls that return).
C6_TimesNonDecreasing ==
  (/\ \/ last.op = "append_points" /\ ~last.t.some
      \/ last.op = "append_point_end" /\ last.vel > 0
      \/ last.op = "recompute_times"
   /\ outcome = "ok"
   /\ NonDecreasing(pre.t)) => NonDecreasing(route.t)

(***************************************************************************)
(* Claims about the trajectory integrators (SpecIvp)                       *)
(***************************************************************************)
\* The horizon is a whole number of steps, so that the grid ends at time_end
WholeSteps == (ivp.time_end - ivp.time_start) % ivp.time_step = 0

\* C7: on the same arguments and grid, each strategy returns one Route per
\* candidate heading, each of as many samples as the grid has points, in each
\* of its four sequences.
C7_SameShape ==
  \A rs \in Returned :
    /\ Len(rs) = Len(ivp.thetas)
    /\ \A i \in 1..Len(rs) :
         /\ RouteLen(rs[i]) = Len(TimeGrid(ivp))
         /\ Len(rs[i].y) = Len(TimeGrid(ivp))
         /\ Len(rs[i].t) = Len(TimeGrid(ivp))
         /\ Len(rs[i].theta) = Len(TimeGrid(ivp))

\* C7 witness: the three strategies have run on two candidates and a grid of
\* three points.
C7_Witness ==
  /\ ivp.done = {"ode", "disc", "rk"}
  /\ Len(ivp.thetas) = 2
  /\ Len(TimeGrid(ivp)) = 3
  /\ Len(ivp.ode) = 2 /\ Len(ivp.disc) = 2 /\ Len(ivp.rk) = 2

\* The times time_start, time_start + time_step, ..., time_end of a Route
ExplicitGrid ==
  [i \in 1..((ivp.time_end - ivp.time_start) \div ivp.time_step + 1) |->
     (ivp.time_start + (i - 1) * ivp.time_step) * TScale]

\* C8: for every strategy, the time sequence of each Route returned is the
\* grid time_start, time_start + time_step, ..., time_end.
C8_TimesOnGrid ==
  WholeSteps =>
    \A rs \in Returned : \A i \in 1..Len(rs) : rs[i].t = ExplicitGrid

\* C9: under the zero field, for every strategy and candidate i, the Route
\* keeps the heading theta0[i] and ends at
\* (x0 + vel * cos(theta0) * T, y0 + vel * sin(theta0) * T), T the horizon.
C9_StraightLine ==
  (ivp.vf = "NoCurrent" /\ WholeSteps) =>
    \A rs \in Returned : \A i \in 1..Len(rs) :
      LET r == rs[i]
          T == ivp.time_end - ivp.time_start
      IN /\ RouteLen(r) >= 1
         /\ \A k \in 1..Len(r.theta) : r.theta[k] = ivp.thetas[i]
         /\ r.x[RouteLen(r)] = ivp.x[i] + ivp.vel * Cos4(ivp.thetas[i]) * T
         /\ r.y[RouteLen(r)] = ivp.y[i] + ivp.vel * Sin4(ivp.thetas[i]) * T

(***************************************************************************)
(* Claims about the cone search (FairCone)                                 *)
(***************************************************************************)
\* The search has just been started from (0, 0) for (10, 0) under the zero
\* field, with a velocity > 0
ZeroFieldStart ==
  /\ cone.version = "utils"
  /\ cone.pc = "while" /\ cone.emitted = <<>>
  /\ cone.vf = "NoCurrent" /\ cone.vel > 0
  /\ cone.x = 0 /\ cone.y = 0
  /\ cone.x_end = 10 * VScale /\ cone.y_end = 0

\* The search has ended within dist_min of the destination
Arrived == cone.pc = "done" /\ ~FarFromDest(cone)

\* C10: under the zero field, the search from (0, 0) for (10, 0) ends, for
\* every configuration with a velocity > 0, and when it has ended the last
\* position selected is within dist_min of (10, 0).
C10_ZeroFieldConverges ==
  ZeroFieldStart ~> Arrived

(***************************************************************************)
(* Claims about append with t or theta omitted (Spec)                      *)
(***************************************************************************)
\* The last call was append_points, on a Route with one t and one theta per
\* point, and supplied one value per point in what it supplied
AppendCall ==
  /\ last.op = "append_points"
  /\ ValidRoute(pre)
  /\ OneValuePerPoint(last)

\* The k timestamps that continue from the last timestamp of pre by units
ContinuedTimes(k) ==
  [i \in 1..k |-> FAdd(pre.t[Len(pre.t)], i * TScale)]

\* With theta omitted, the call added one heading per point, each the last
\* heading before it
RepeatsLastHeading ==
  route.theta = pre.theta \o [i \in 1..Len(last.x) |-> pre.theta[Len(pre.theta)]]

\* C19: an append of k points with t omitted adds exactly k timestamps, which
\* continue from the last timestamp in unit increments; with theta omitted
\* it adds exactly k headings, each the last heading before the append.
C19_SynthesizedValues ==
  /\ (AppendCall /\ ~last.t.some) =>
       /\ outcome = "ok"
       /\ route.t = pre.t \o ContinuedTimes(Len(last.x))
  /\ (AppendCall /\ ~last.theta.some /\ outcome = "ok") => RepeatsLastHeading

(***************************************************************************)
(* Further claims about the cone search (SpecCone, FairCone)               *)
(***************************************************************************)
\* The search is suspended at the yield of a pass that selected the position
\* the pass started from
StagnantYield ==
  cone.pc = "yield" /\ cone.x = cone.x_old /\ cone.y = cone.y_old

\* C11: when a pass selects a candidate ending where the pass started, its
\* candidate set is the last one emitted: the next step ends the search with
\* that set unchanged, and an ended search takes no further step (no
\* integrator call, no emission).
C11_StagnationEnds ==
  [][/\ StagnantYield =>
          /\ cone'.pc = "done" /\ cone'.exit = "break"
          /\ cone'.emitted = cone.emitted
          /\ cone'.x = cone.x /\ cone'.y = cone.y
      /\ cone.pc # "done"]_vars

\* C11 witness: a search ended by stagnation, having emitted the three
\* candidates of its last pass.
C11_Witness ==
  /\ cone.pc = "done" /\ cone.exit = "break"
  /\ cone.x = cone.x_old /\ cone.y = cone.y_old
  /\ Len(cone.emitted) = 3

\* What the caller receives when a search ends because the destination is
\* within dist_min: the generator is exhausted, with no value
ReachedStop == "None"

\* C12: what the search hands the caller when it ends tells the two endings
\* apart: an end by stagnation is not the plain end of a search that reached
\* the destination.
C12_EndingsReported ==
  (cone.pc = "done" /\ cone.exit = "break") => cone.stop # ReachedStop

\* A search has just been started
SearchStarted == cone.pc = "while" /\ cone.emitted = <<>>

\* The search has stopped: its generator is exhausted, or it raised
SearchStopped == cone.pc \in {"done", "raised"}

\* C15: every search, whatever its destination and configuration, stops after
\* finitely many passes; none goes on selecting new positions forever.
C15_EverySearchStops == SearchStarted ~> SearchStopped

\* The pass that last ran was started farther than dist_min from the
\* destination
PassStartedFar ==
  DistToDestSq(<<cone.x_old, cone.y_old>>, <<cone.x_end, cone.y_end>>)
    > cone.dist_min * cone.dist_min

\* The search was started, at (0, 0), within dist_min of the destination
StartedNear ==
  DistToDestSq(<<0, 0>>, <<cone.x_end, cone.y_end>>) <= cone.dist_min * cone.dist_min

\* C16: a pass is run only from a position farther than dist_min from the
\* destination; a search started within dist_min emits nothing; and a search
\* that has stopped otherwise than by stagnation stands within dist_min of
\* the destination.
C16_LoopGuard ==
  /\ cone.pc \in {"yield", "raised"} => PassStartedFar
  /\ StartedNear => cone.emitted = <<>>
  /\ (SearchStopped /\ cone.exit # "break") => ~FarFromDest(cone)

\* How many times the route r occurs in the list
Occurrences(list_routes, r) ==
  Cardinality({i \in 1..Len(list_routes) : list_routes[i] = r})

\* The distance (squared) of the end of route r to the destination
EndDistSq(r) == DistToDestSq(EndPoint(r), <<cone.x_end, cone.y_end>>)

\* A step that runs a pass to its yield emits the routes the integrator
\* returns for the position and the cone before the step, each as often as
\* it was returned, the closest first (the first returned of the closest)
EmitsThePass ==
  LET computed == SolveWave(cone)
      emitted == cone'.emitted
      best == CHOOSE k \in 1..Len(computed) :
                /\ \A i \in 1..Len(computed) :
                     EndDistSq(computed[k]) <= EndDistSq(computed[i])
                /\ \A i \in 1..(k - 1) :
                     EndDistSq(computed[k]) < EndDistSq(computed[i])
  IN /\ Len(emitted) = cone.num_angles
     /\ Len(computed) = cone.num_angles
     /\ \A i \in 1..Len(computed) :
          Occurrences(emitted, computed[i]) = Occurrences(computed, computed[i])
     /\ emitted[1] = computed[best]

\* A step that runs a pass of the loop to its yield
PassStep == cone.pc = "while" /\ cone'.pc = "yield"

\* C17: the candidate set a pass emits holds exactly the num_angles routes
\* computed in that pass, none lost or duplicated, and its first element is
\* the candidate ending closest to the destination, the one of lowest index
\* among equals.
C17_EmittedSet == [][PassStep => EmitsThePass]_vars

\* C17 witness: a pass has emitted its three routes, which differ in their
\* headings and end at one distance from the destination (the vessel does
\* not move).
C17_Witness ==
  /\ cone.pc = "yield" /\ Len(cone.emitted) = 3
  /\ cone.emitted[1] # cone.emitted[2] /\ cone.emitted[2] # cone.emitted[3]
  /\ EndDistSq(cone.emitted[1]) = EndDistSq(cone.emitted[2])
  /\ EndDistSq(cone.emitted[1]) = EndDistSq(cone.emitted[3])

\* A pass of the loop has run
AfterPass == cone.pc \in {"yield", "raised"} \/ cone.emitted # <<>>

\* C18: after every pass the position is the final point of the selected
\* candidate (the first of the emitted set), and cone_center, which the next
\* pass uses, is the angle from that position to the destination.
C18_AdvanceAndRecentre ==
  AfterPass =>
    /\ cone.emitted # <<>>
    /\ <<cone.x, cone.y>> = EndPoint(cone.emitted[1])
    /\ cone.cone_center = Arctan4(cone.y_end - cone.y, cone.x_end - cone.x)

(***************************************************************************)
(* Claims about recompute_times (Spec)                                     *)
(***************************************************************************)
\* The last call was recompute_times on a Route with a segment on which the
\* current's perpendicular component exceeds the vessel's speed
InfeasibleCall ==
  /\ last.op = "recompute_times"
  /\ \E i \in 1..(Len(pre.x) - 1) :
       PerpExceeds(last.vel, GetCurrent(last.vf, pre.x[i], pre.y[i]),
                   SegDir(pre.x[i], pre.y[i], pre.x[i + 1], pre.y[i + 1]))

\* C13: a recompute_times that meets a segment whose perpendicular
\* compensation exceeds the vessel's speed does not return as a call without
\* such a segment does: the caller gets a distinguishable outcome.
C13_InfeasibleSurfaced ==
  InfeasibleCall => outcome # "ok"

(***************************************************************************)
(* Claims about the relaxation (SpecDnj)                                   *)
(***************************************************************************)
\* C14: after any number of invocations of the relaxation, each with its own
\* budget, the first and the last waypoint of the Route are those before the
\* relaxation, and the Route has as many waypoints as before.
C14_AnchorsFixed ==
  /\ Len(route.x) = Len(pre.x) /\ Len(route.y) = Len(pre.y)
  /\ route.x[1] = pre.x[1] /\ route.y[1] = pre.y[1]
  /\ route.x[Len(route.x)] = pre.x[Len(pre.x)]
  /\ route.y[Len(route.y)] = pre.y[Len(pre.y)]

\* C14 witness: two invocations, the second with a budget of two passes, have
\* moved an interior waypoint of a Route of four.
C14_Witness ==
  /\ steps = 2 /\ last.num_iter = 2
  /\ Len(route.x) = 4
  /\ \E i \in 2..3 : route.x[i] # pre.x[i] \/ route.y[i] # pre.y[i]

\* The per-segment times the last recompute_times was left with, after its
\* replacements (lines 180-198)
ClampedTimes ==
  ClampTimes(SegTimes(pre.d, SegVels(pre, last.vel, last.vf, last.interp)))

\* C20: when recompute_times has replaced the NaN and the negative segment
\* times, every segment time is finite and not negative, whatever the
\* segments are (all degenerate, or some of infinite time).
C20_ClampedTimesFinite ==
  (last.op = "recompute_times" /\ outcome = "ok") =>
    \A i \in 1..Len(ClampedTimes) :
      IsNum(ClampedTimes[i]) /\ ClampedTimes[i] >= 0

\* The last call was recompute_times with interp true, on a Route of two or
\* more samples with one t and one theta per sample
InterpCall ==
  /\ last.op = "recompute_times" /\ last.interp
  /\ ValidRoute(pre) /\ Len(pre.x) >= 2

\* C21: recompute_times with interp true on a Route of N samples completes
\* and leaves a time sequence of exactly N values that starts at 0.
C21_InterpCompletes ==
  InterpCall =>
    /\ outcome = "ok"
    /\ Len(route.t) = Len(pre.x)
    /\ route.t[1] = 0

====
